---- MODULE Spec2Model ----
(***************************************************************************)
(* Model of the hyperHybrids pipeline scripts:                             *)
(*   hg-test2.py                        hyperedge extraction, consolidation *)
(*   03_build_hypergraph_structure.py   hypergraph construction and export  *)
(*   04_perform_hypergraph_clustering.py  re-import and clustering          *)
(*   hg-test7.py                        re-import for plotting              *)
(*   05_evaluate_clustering_results.py  merge and evaluation                *)
(*   01_simulate_population_data.py     family loop and genetic distances   *)
(* Files on disk are variables; every script is a sequential process whose  *)
(* position is a pc variable.                                               *)
(***************************************************************************)
EXTENDS Integers, Sequences, FiniteSets, TLC

VARIABLES
    \* ---- hg-test2.py ----
    pc2,                          \* position in the script
    all_hyperedges_from_loaded,   \* accumulated list of frozensets
    generated_hyperedge_counts,   \* view name -> number of edges it returned
    blocks_permuted,              \* the same view lists, extended in another order
    final_hyperedge_list_loaded,  \* unique_hyperedges(all_hyperedges_from_loaded)
    final_permuted,               \* unique_hyperedges of the other ordering
    \* ---- files ----
    hyperedges_file,              \* simulated_hyperedges.json
    structure_file,               \* hypergraph_structure.json
    assignments_file,             \* hypergraph_cluster_assignments.csv
    \* ---- 03_build_hypergraph_structure.py ----
    pc3, ctor3, H3, warned3,
    \* ---- 04_perform_hypergraph_clustering.py ----
    pc4, nodes_from_file, ctor4, H4, warned4, partition, node_to_cluster,
    \* ---- hg-test7.py ----
    pc7, ctor7, H7,
    \* ---- hg-test2.py: the view functions and the tables they read ----
    pcv,                          \* the next view function to call
    individuals_df, traits_df, genetic_dist_df,
    args,                         \* the arguments the view functions are called with
    results,                      \* view name -> the list it returned
    \* ---- hg-test2.py: the csv files it loads ----
    tables_file,                  \* "ok", "absent" or "corrupt"
    \* ---- 05_evaluate_clustering_results.py ----
    pc5, merged_df, warned5,
    evaluated,                    \* the rows the metrics and the contingency table were computed on
    \* ---- 01_simulate_population_data.py ----
    sim                           \* position, true_group, family loop and genetic matrix of the script

vars2 == <<pc2, tables_file, all_hyperedges_from_loaded, generated_hyperedge_counts,
           blocks_permuted, final_hyperedge_list_loaded, final_permuted>>
files == <<hyperedges_file, structure_file, assignments_file>>
vars3 == <<pc3, ctor3, H3, warned3>>
vars4 == <<pc4, nodes_from_file, ctor4, H4, warned4, partition, node_to_cluster>>
vars7 == <<pc7, ctor7, H7>>
varsV == <<pcv, individuals_df, traits_df, genetic_dist_df, args, results>>
vars5 == <<pc5, merged_df, warned5, evaluated>>
vars == <<vars2, files, vars3, vars4, vars7, varsV, vars5, sim>>

----------------------------------------------------------------------------
(* Bounds *)

MaxId == 2            \* individual ids are 1..MaxId
MaxViewEdges == 1     \* a view returns at most this many hyperedges
MaxTotalEdges == 3    \* accumulated hyperedges over all views
N_INDIVIDUALS == 4    \* 01: individuals simulated (120 in the script)
N_FAMILIES == 2       \* 01: iterations of the family loop (15 in the script)
FAMILY_SIZE_MIN == 2  \* 01: smallest family drawn (3 in the script)
FAMILY_SIZE_MAX == 3  \* 01: largest family drawn (5 in the script)

Ids == 1..MaxId

----------------------------------------------------------------------------
(* Generic helpers *)

Range(s) == {s[i] : i \in DOMAIN s}

Count(x, s) == Cardinality({i \in DOMAIN s : s[i] = x})

NoDup(s) == \A i, j \in DOMAIN s : i # j => s[i] # s[j]

InsertAt(s, p, x) == SubSeq(s, 1, p) \o <<x>> \o SubSeq(s, p + 1, Len(s))

RECURSIVE Flatten(_)
Flatten(ss) == IF ss = <<>> THEN <<>> ELSE Head(ss) \o Flatten(Tail(ss))

RECURSIVE Pow2(_)
Pow2(n) == IF n = 0 THEN 1 ELSE 2 * Pow2(n - 1)

RECURSIVE SumKeys(_)
SumKeys(S) == IF S = {} THEN 0
              ELSE LET m == CHOOSE x \in S : TRUE
                   IN Pow2(m - 1) + SumKeys(S \ {m})

\* hash(frozenset): a value computed from the members alone.
EdgeHash(e) == SumKeys(e)

\* Iteration order of a Python set of frozensets: table (hash) order.
RECURSIVE SetToList(_)
SetToList(S) ==
    IF S = {} THEN <<>>
    ELSE LET e == CHOOSE x \in S : \A y \in S : EdgeHash(x) <= EdgeHash(y)
         IN <<e>> \o SetToList(S \ {e})

\* sorted(...) of a set of integers.
RECURSIVE SortedList(_)
SortedList(S) ==
    IF S = {} THEN <<>>
    ELSE LET m == CHOOSE x \in S : \A y \in S : x <= y
         IN <<m>> \o SortedList(S \ {m})

----------------------------------------------------------------------------
(* hg-test2.py *)

\* Faulty variants of unique_hyperedges: drops the last entry; keeps one edge
\* per size; does not deduplicate.
unique_hyperedges_dropLast(hyperedge_list) ==
    IF hyperedge_list = <<>> THEN <<>>
    ELSE SetToList(Range(SubSeq(hyperedge_list, 1, Len(hyperedge_list) - 1)))

unique_hyperedges_bySize(hyperedge_list) ==
    LET firsts == {i \in DOMAIN hyperedge_list :
                     \A j \in 1..(i - 1) :
                        Cardinality(hyperedge_list[j]) # Cardinality(hyperedge_list[i])}
    IN SetToList({hyperedge_list[i] : i \in firsts})

unique_hyperedges_noDedup(hyperedge_list) == hyperedge_list

\* def unique_hyperedges(hyperedge_list): return list(set(hyperedge_list))
unique_hyperedges(hyperedge_list) == SetToList(Range(hyperedge_list))

\* The extend calls of the script, in program order.
VIEWS == <<"trait_knn", "genetic_knn", "family", "environment", "family_in_env">>

EdgeUniverse == (SUBSET Ids) \ {{}}

RECURSIVE SeqsUpTo(_, _)
SeqsUpTo(S, n) ==
    IF n = 0 THEN {<<>>}
    ELSE LET shorter == SeqsUpTo(S, n - 1)
         IN shorter \cup {Append(s, x) : s \in {t \in shorter : Len(t) = n - 1}, x \in S}

\* What a view function returns: list(set(...)) of its edges, or [].
ViewOutputs == {SetToList(S) : S \in {T \in SUBSET EdgeUniverse : Cardinality(T) <= MaxViewEdges}}

\* list(map(int, he)) for he in final_hyperedge_list_loaded, as JSON values.
JInt(n) == <<"int", n>>

hyperedges_for_json(final) ==
    [i \in DOMAIN final |-> [j \in DOMAIN SortedList(final[i]) |-> JInt(SortedList(final[i])[j])]]

\* A file is absent, present but not JSON ("corrupt"), or holds parsed JSON/CSV data.
AbsentFile == [state |-> "absent", data |-> <<>>]
CorruptFile == [state |-> "corrupt", data |-> <<>>]
JsonFile(d) == [state |-> "json", data |-> d]
CsvFile(rows) == [state |-> "csv", data |-> rows]
NoStructure == [nodes |-> <<>>, hyperedges |-> <<>>]
AbsentStructure == [state |-> "absent", data |-> NoStructure]
CorruptStructure == [state |-> "corrupt", data |-> NoStructure]

\* H = None
NoH == [exists |-> FALSE, nodes |-> {}, edges |-> <<>>]

Idle3 == pc3 = "idle" /\ ctor3 = <<>> /\ H3 = NoH /\ warned3 = {}
Idle4 == /\ pc4 = "idle" /\ nodes_from_file = <<>> /\ ctor4 = <<>> /\ H4 = NoH
         /\ warned4 = {} /\ partition = <<>> /\ node_to_cluster = <<>>
Idle7 == pc7 = "idle" /\ ctor7 = <<>> /\ H7 = NoH

\* The tables before they are loaded: no rows, no columns.
EmptyIndividuals == [cols |-> {}, ids |-> {}, family_id |-> <<>>, environment |-> <<>>]
EmptyTraits == [cols |-> {}, ids |-> {}, trait_0 |-> <<>>, trait_1 |-> <<>>]
EmptyMatrix == [ids |-> {}, dist |-> <<>>]
NoArgs == [min_size |-> 0, k |-> 0, threshold |-> 0, mode |-> "above", scale_traits |-> TRUE]
\* What a call of a view function did: it returned a list, or an exception left it.
Returned(edges) == [error |-> "none", edges |-> edges]
Raised(exception) == [error |-> exception, edges |-> <<>>]
NotCalled == [error |-> "not called", edges |-> <<>>]
NoResults == [trait_knn |-> NotCalled, trait_threshold |-> NotCalled, genetic_knn |-> NotCalled,
              genetic_distance_threshold |-> NotCalled, family |-> NotCalled,
              environment |-> NotCalled, family_in_env |-> NotCalled,
              knn_rows |-> <<>>, threshold_rows |-> <<>>]

IdleViews ==
    /\ pcv = "idle"
    /\ individuals_df = EmptyIndividuals
    /\ traits_df = EmptyTraits
    /\ genetic_dist_df = EmptyMatrix
    /\ args = NoArgs
    /\ results = NoResults

\* Script 1 before it starts.
NoSim == [pc |-> "idle", true_group |-> <<>>, family_ids |-> <<>>, current_family_id |-> 0,
          pool |-> <<>>, iter |-> 0, matrix |-> <<>>, i |-> 0, j |-> 0]
IdleSim == sim = NoSim

Idle5 == pc5 = "idle" /\ merged_df = <<>> /\ warned5 = FALSE /\ evaluated = <<>>

\* What the three csv files of script 1 can be when hg-test2.py opens them.
TableFileStates == {"ok", "absent", "corrupt"}

Init2 ==
    /\ pc2 = "load"
    /\ tables_file \in TableFileStates
    /\ all_hyperedges_from_loaded = <<>>
    /\ generated_hyperedge_counts = <<>>
    /\ blocks_permuted = <<>>
    /\ final_hyperedge_list_loaded = <<>>
    /\ final_permuted = <<>>

InitExtract ==
    /\ Init2
    /\ hyperedges_file = AbsentFile
    /\ structure_file = AbsentStructure
    /\ assignments_file = AbsentFile
    /\ Idle3 /\ Idle4 /\ Idle7 /\ IdleViews /\ Idle5 /\ IdleSim

\* Faulty variant: the output file is opened for writing before the tables are read.
S2_Load_savesEmpty ==
    /\ pc2 = "load"
    /\ pc2' = IF tables_file = "ok" THEN "extend" ELSE "exited"
    /\ hyperedges_file' = IF tables_file = "ok" THEN hyperedges_file ELSE JsonFile(<<>>)
    /\ UNCHANGED <<tables_file, all_hyperedges_from_loaded, generated_hyperedge_counts,
                   blocks_permuted, final_hyperedge_list_loaded, final_permuted,
                   structure_file, assignments_file, vars3, vars4, vars7, varsV, vars5, sim>>
\* lines 19-32: pd.read_csv of the three tables; FileNotFoundError or any other
\* exception ends the script with exit()
S2_Load ==
    /\ pc2 = "load"
    /\ pc2' = IF tables_file = "ok" THEN "extend" ELSE "exited"
    /\ UNCHANGED <<tables_file, all_hyperedges_from_loaded, generated_hyperedge_counts,
                   blocks_permuted, final_hyperedge_list_loaded, final_permuted,
                   files, vars3, vars4, vars7, varsV, vars5, sim>>

\* lines 138-175: view_h = get_..._hyperedges(...); all_hyperedges_from_loaded.extend(view_h);
\* generated_hyperedge_counts[view] = len(view_h)
ExtendView ==
    /\ pc2 = "extend"
    /\ \E out \in ViewOutputs :
         /\ Len(all_hyperedges_from_loaded) + Len(out) <= MaxTotalEdges
         /\ all_hyperedges_from_loaded' = all_hyperedges_from_loaded \o out
         /\ generated_hyperedge_counts' = Append(generated_hyperedge_counts, Len(out))
         /\ IF out = <<>>
            THEN blocks_permuted' = blocks_permuted
            ELSE \E p \in 0..Len(blocks_permuted) :
                    blocks_permuted' = InsertAt(blocks_permuted, p, out)
    /\ pc2' = IF Len(generated_hyperedge_counts) + 1 = Len(VIEWS) THEN "consolidate" ELSE "extend"
    /\ UNCHANGED <<tables_file, final_hyperedge_list_loaded, final_permuted, files, vars3, vars4, vars7, varsV, vars5, sim>>

\* line 183: final_hyperedge_list_loaded = unique_hyperedges(all_hyperedges_from_loaded)
Consolidate ==
    /\ pc2 = "consolidate"
    /\ final_hyperedge_list_loaded' = unique_hyperedges(all_hyperedges_from_loaded)
    /\ final_permuted' = unique_hyperedges(Flatten(blocks_permuted))
    /\ pc2' = "save"
    /\ UNCHANGED <<tables_file, all_hyperedges_from_loaded, generated_hyperedge_counts, blocks_permuted,
                   files, vars3, vars4, vars7, varsV, vars5, sim>>

\* Faulty variant: nothing is saved when there is no hyperedge.
SaveHyperedges_skipsEmpty ==
    /\ pc2 = "save"
    /\ hyperedges_file' = IF final_hyperedge_list_loaded = <<>>
                          THEN hyperedges_file
                          ELSE JsonFile(hyperedges_for_json(final_hyperedge_list_loaded))
    /\ pc2' = "done"
    /\ UNCHANGED <<tables_file, all_hyperedges_from_loaded, generated_hyperedge_counts, blocks_permuted,
                   final_hyperedge_list_loaded, final_permuted,
                   structure_file, assignments_file, vars3, vars4, vars7, varsV, vars5, sim>>

\* lines 196-213: json.dump(hyperedges_for_json, f); an empty list is saved as []
SaveHyperedges ==
    /\ pc2 = "save"
    /\ hyperedges_file' = JsonFile(hyperedges_for_json(final_hyperedge_list_loaded))
    /\ pc2' = "done"
    /\ UNCHANGED <<tables_file, all_hyperedges_from_loaded, generated_hyperedge_counts, blocks_permuted,
                   final_hyperedge_list_loaded, final_permuted,
                   structure_file, assignments_file, vars3, vars4, vars7, varsV, vars5, sim>>

NextExtract == S2_Load \/ ExtendView \/ Consolidate \/ SaveHyperedges

SpecExtract == InitExtract /\ [][NextExtract]_vars

Consolidated == pc2 \in {"save", "done"}

Ended2 == pc2 \in {"done", "exited"}

----------------------------------------------------------------------------
\* C1: consolidation is idempotent: applying unique_hyperedges to the
\* consolidated list yields a list with exactly the same member sets, each
\* still occurring once.
C1_DedupIdempotent ==
    Consolidated =>
        /\ Range(unique_hyperedges(final_hyperedge_list_loaded)) = Range(final_hyperedge_list_loaded)
        /\ Len(unique_hyperedges(final_hyperedge_list_loaded)) = Len(final_hyperedge_list_loaded)

C1_Witness ==
    /\ pc2 = "done"
    /\ Len(final_hyperedge_list_loaded) >= 2
    /\ ~NoDup(all_hyperedges_from_loaded)

\* C2: consolidation is order-independent: extending the accumulated list with
\* the same per-view lists in any other order consolidates to the same set of
\* member sets.
C2_OrderIndependent ==
    Consolidated => Range(final_permuted) = Range(final_hyperedge_list_loaded)

C2_Witness ==
    /\ pc2 = "done"
    /\ Len(blocks_permuted) >= 2
    /\ Flatten(blocks_permuted) # all_hyperedges_from_loaded
    /\ Len(final_hyperedge_list_loaded) >= 2

\* C3: consolidation is exact member-set deduplication: every member set
\* returned by some view occurs exactly once in the result, nothing else
\* occurs, and equal edges from different views collapse to one.
C3_ExactDedup ==
    Consolidated =>
        /\ \A e \in Range(all_hyperedges_from_loaded) : Count(e, final_hyperedge_list_loaded) = 1
        /\ Range(final_hyperedge_list_loaded) \subseteq Range(all_hyperedges_from_loaded)

C3_Witness ==
    /\ pc2 = "done"
    /\ \E i, j \in DOMAIN all_hyperedges_from_loaded :
          i < j /\ all_hyperedges_from_loaded[i] = all_hyperedges_from_loaded[j]
    /\ Len(final_hyperedge_list_loaded) < Len(all_hyperedges_from_loaded)
    /\ Len(final_hyperedge_list_loaded) >= 2


----------------------------------------------------------------------------
(* JSON values and Python's int() *)

MaxFileSize == 3      \* size of an input file: its members, an empty hyperedge counting one
MaxSpecial == 1       \* members of an input file that are not JSON integers

\* <<"int", n>> is n, <<"frac", n>> is n + 0.5, <<"numstr", n>> is the string "n",
\* <<"str", 0>> is a non-numeric string, <<"null", 0>> is null.
JSpecials == {<<"frac", 1>>, <<"numstr", 1>>, <<"str", 0>>, <<"null", 0>>}
JScalars == {JInt(n) : n \in Ids} \cup JSpecials

\* int(x): truncates a float, parses a numeric string, raises ValueError on any
\* other string and TypeError on None.
int_error(x) == IF x[1] = "str" THEN "ValueError"
                ELSE IF x[1] = "null" THEN "TypeError" ELSE "none"
int_value(x) == x[2]

\* set(map(int, he_list)): the first member int() rejects raises its error.
set_map_int(he_list) ==
    LET bad == {i \in DOMAIN he_list : int_error(he_list[i]) # "none"}
        first == CHOOSE i \in bad : \A j \in bad : i <= j
    IN IF bad = {}
       THEN [error |-> "none", value |-> {int_value(he_list[i]) : i \in DOMAIN he_list}]
       ELSE [error |-> int_error(he_list[first]), value |-> {}]

\* Faulty variant: the emptiness test is missing.
edge_step_keepEmpty(he_list) ==
    LET r == set_map_int(he_list)
    IN IF r.error = "ValueError" THEN "warn_skip"
       ELSE IF r.error = "TypeError" THEN "abort"
       ELSE "append"

\* One iteration of the conversion loop (03: 23-32, 04: 43-51, hg-test7: 26-32):
\* ValueError is caught inside the loop, any other exception leaves the loop.
edge_step(he_list) ==
    LET r == set_map_int(he_list)
    IN IF r.error = "ValueError" THEN "warn_skip"
       ELSE IF r.error = "TypeError" THEN "abort"
       ELSE IF r.value = {} THEN "skip_empty"
       ELSE "append"

\* The whole loop over the loaded list.
RECURSIVE convert_hyperedges(_, _, _, _)
convert_hyperedges(raw, i, acc, warned) ==
    IF i > Len(raw) THEN [ctor |-> acc, warned |-> warned, error |-> "none"]
    ELSE LET step == edge_step(raw[i])
         IN IF step = "abort"
            THEN [ctor |-> acc, warned |-> warned, error |-> "TypeError"]
            ELSE IF step = "warn_skip"
            THEN convert_hyperedges(raw, i + 1, acc, warned \cup {i})
            ELSE IF step = "skip_empty"
            THEN convert_hyperedges(raw, i + 1, acc, warned)
            ELSE convert_hyperedges(raw, i + 1, Append(acc, set_map_int(raw[i]).value), warned)

\* hnx.Hypergraph(list of sets): edge uid i-1 is the i-th set, the nodes are
\* the members of the edges.
hnx_Hypergraph(edge_list) ==
    [exists |-> TRUE, nodes |-> UNION Range(edge_list), edges |-> edge_list]

JIntList(S) == [j \in DOMAIN SortedList(S) |-> JInt(SortedList(S)[j])]

\* Faulty variant: an edge whose uid is 0 is taken for a missing one.
export_structure_skipUid0(H) ==
    [nodes |-> JIntList(H.nodes),
     hyperedges |-> [i \in 1..(Len(H.edges) - 1) |-> JIntList(H.edges[i + 1])]]

\* Faulty variant: the nodes are taken from the first edge only.
export_structure_firstEdgeNodes(H) ==
    [nodes |-> JIntList(H.edges[1]),
     hyperedges |-> [i \in DOMAIN H.edges |-> JIntList(H.edges[i])]]

\* 03: 68-113: nodes_list = sorted(map(int, H.nodes)); one sorted member list
\* per edge uid of H.
export_structure(H) ==
    [nodes |-> JIntList(H.nodes),
     hyperedges |-> [i \in DOMAIN H.edges |-> JIntList(H.edges[i])]]

----------------------------------------------------------------------------
(* Input files *)

SpecialCount(list) == Cardinality({i \in DOMAIN list : list[i] \in JSpecials})

ListSize(list) == IF list = <<>> THEN 1 ELSE Len(list)

\* The member lists of size at most t with at most k special members.
MemberLists(t, k) == {l \in SeqsUpTo(JScalars, t) : SpecialCount(l) <= k}

\* Contents a hyperedge list (or the hyperedges of a structure) may have:
\* lists of member lists of total size at most t, with at most k special members.
RECURSIVE HyperedgeListsOf(_, _)
HyperedgeListsOf(t, k) ==
    IF t = 0 THEN {<<>>}
    ELSE {<<>>} \cup
         UNION {{<<l>> \o rest : rest \in HyperedgeListsOf(t - ListSize(l), k - SpecialCount(l))} :
                   l \in MemberLists(t, k)}

HyperedgeLists == HyperedgeListsOf(MaxFileSize, MaxSpecial)

\* Contents the nodes list of a structure may have.
NodeLists == {JIntList(S) : S \in SUBSET Ids}

----------------------------------------------------------------------------
(* 03_build_hypergraph_structure.py *)

\* 03: 17-47
S3_Load ==
    /\ Ended2
    /\ pc3 = "idle"
    /\ IF hyperedges_file.state # "json"
       THEN \* FileNotFoundError / JSONDecodeError: exit()
            /\ pc3' = "exited"
            /\ UNCHANGED <<ctor3, warned3>>
       ELSE LET r == convert_hyperedges(hyperedges_file.data, 1, <<>>, {})
            IN /\ ctor3' = r.ctor
               /\ warned3' = r.warned
               /\ pc3' = IF r.error = "none" THEN "loaded" ELSE "exited"
    /\ UNCHANGED <<H3, files, vars2, vars4, vars7, varsV, vars5, sim>>

\* 03: 50-128
S3_ConstructAndSave ==
    /\ pc3 = "loaded"
    /\ IF ctor3 # <<>>
       THEN /\ H3' = hnx_Hypergraph(ctor3)
            /\ structure_file' = JsonFile(export_structure(hnx_Hypergraph(ctor3)))
       ELSE UNCHANGED <<H3, structure_file>>
    /\ pc3' = "done"
    /\ UNCHANGED <<ctor3, warned3, hyperedges_file, assignments_file, vars2, vars4, vars7, varsV, vars5, sim>>

Ended3 == pc3 \in {"done", "exited"}

\* The extraction followed by the structure-building step on the file it saved.
NextHandoff == NextExtract \/ S3_Load \/ S3_ConstructAndSave

SpecHandoff == InitExtract /\ [][NextHandoff]_vars

----------------------------------------------------------------------------
(* 04_perform_hypergraph_clustering.py *)

\* Faulty variant: the script goes on with an empty edge list.
no_valid_hyperedges_never(edge_list) == FALSE

\* 04: 53: if not hyperedges_for_hnx_constructor
no_valid_hyperedges(edge_list) == edge_list = <<>>

\* 04: 33-68
S4_Load ==
    /\ Ended3
    /\ pc4 = "idle"
    /\ IF structure_file.state # "json"
       THEN /\ pc4' = "exited"
            /\ UNCHANGED <<nodes_from_file, ctor4, warned4, H4>>
       ELSE LET r == convert_hyperedges(structure_file.data.hyperedges, 1, <<>>, {})
            IN /\ nodes_from_file' = structure_file.data.nodes
               /\ ctor4' = r.ctor
               /\ warned4' = r.warned
               /\ IF r.error # "none" \/ no_valid_hyperedges(r.ctor)
                  THEN pc4' = "exited" /\ H4' = H4
                  ELSE pc4' = "loaded" /\ H4' = hnx_Hypergraph(r.ctor)
    /\ UNCHANGED <<partition, node_to_cluster, files, vars2, vars3, vars7, varsV, vars5, sim>>

\* Ordered partitions of a node set: lists of pairwise disjoint non-empty sets
\* that cover it.
OrderedPartitions(S) ==
    {p \in SeqsUpTo((SUBSET S) \ {{}}, Cardinality(S)) :
        /\ UNION Range(p) = S
        /\ \A i, j \in DOMAIN p : i # j => p[i] \cap p[j] = {}}

\* 04: 76-78: hmod.kumar(H) returns a partition (list of sets of nodes) of H.
kumar(H) == OrderedPartitions(H.nodes)

\* 04: 84-87: node_to_cluster[int(node)] = cluster_idx, a later cluster overwrites
build_node_to_cluster_oneBased(part) ==
    [n \in UNION Range(part) |->
        (CHOOSE i \in DOMAIN part : n \in part[i] /\ \A j \in DOMAIN part : n \in part[j] => j <= i)]
build_node_to_cluster(part) ==
    [n \in UNION Range(part) |->
        (CHOOSE i \in DOMAIN part : n \in part[i] /\ \A j \in DOMAIN part : n \in part[j] => j <= i) - 1]

\* 04: 90-98: rows (individual_id, cluster_id) sorted by individual_id
assignment_rows_descending(n2c) ==
    [i \in DOMAIN SortedList(DOMAIN n2c) |->
        <<SortedList(DOMAIN n2c)[Cardinality(DOMAIN n2c) + 1 - i],
          n2c[SortedList(DOMAIN n2c)[Cardinality(DOMAIN n2c) + 1 - i]]>>]
assignment_rows(n2c) ==
    [i \in DOMAIN SortedList(DOMAIN n2c) |-> <<SortedList(DOMAIN n2c)[i], n2c[SortedList(DOMAIN n2c)[i]]>>]

\* 04: 73-99: kumar returned a non-empty partition
S4_Cluster ==
    /\ pc4 = "loaded"
    /\ \E p \in kumar(H4) :
         /\ partition' = p
         /\ node_to_cluster' = build_node_to_cluster(p)
         /\ assignments_file' = CsvFile(assignment_rows(build_node_to_cluster(p)))
    /\ pc4' = "done"
    /\ UNCHANGED <<nodes_from_file, ctor4, warned4, H4, hyperedges_file, structure_file,
                   vars2, vars3, vars7, varsV, vars5, sim>>

\* Faulty variant: an assignments table without rows is saved all the same.
S4_NoClustering_writesEmpty ==
    /\ pc4 = "loaded"
    /\ pc4' = "done"
    /\ assignments_file' = CsvFile(<<>>)
    /\ UNCHANGED <<nodes_from_file, ctor4, warned4, H4, partition, node_to_cluster,
                   hyperedges_file, structure_file, vars2, vars3, vars7, varsV, vars5, sim>>

\* 04: 103-114: kumar raised or returned nothing, or the module is not available
S4_NoClustering ==
    /\ pc4 = "loaded"
    /\ pc4' = "done"
    /\ UNCHANGED <<nodes_from_file, ctor4, warned4, H4, partition, node_to_cluster,
                   files, vars2, vars3, vars7, varsV, vars5, sim>>

Ended4 == pc4 \in {"done", "exited"}

----------------------------------------------------------------------------
(* hg-test7.py *)

\* hg-test7: 20-43
S7_Load ==
    /\ Ended4
    /\ pc7 = "idle"
    /\ IF structure_file.state # "json"
       THEN pc7' = "exited" /\ UNCHANGED <<ctor7, H7>>
       ELSE LET r == convert_hyperedges(structure_file.data.hyperedges, 1, <<>>, {})
            IN /\ ctor7' = r.ctor
               /\ IF r.error # "none" \/ r.ctor = <<>>
                  THEN pc7' = "exited" /\ H7' = H7
                  ELSE pc7' = "loaded" /\ H7' = hnx_Hypergraph(r.ctor)
    /\ UNCHANGED <<files, vars2, vars3, vars4, varsV, vars5, sim>>

----------------------------------------------------------------------------
(* The pipeline from the hyperedge file on: scripts 3, 4 and 7 run one after *)
(* the other on whatever the files hold.                                      *)

Done2 ==
    /\ pc2 = "done"
    /\ tables_file = "ok"
    /\ all_hyperedges_from_loaded = <<>>
    /\ generated_hyperedge_counts = <<>>
    /\ blocks_permuted = <<>>
    /\ final_hyperedge_list_loaded = <<>>
    /\ final_permuted = <<>>

\* What an earlier run of the extraction may have left in the hyperedge file.
EarlierHyperedges == {AbsentFile, CorruptFile} \cup {JsonFile(h) : h \in HyperedgeListsOf(1, 0)}

Init ==
    /\ Idle3 /\ Idle4 /\ Idle7 /\ IdleViews /\ Idle5 /\ IdleSim
    /\ assignments_file = AbsentFile
    /\ \/ /\ Done2
          /\ hyperedges_file \in {AbsentFile, CorruptFile} \cup {JsonFile(h) : h \in HyperedgeLists}
          /\ structure_file = AbsentStructure
       \/ /\ Done2
          /\ hyperedges_file = AbsentFile
          /\ structure_file \in {CorruptStructure} \cup
                {JsonFile([nodes |-> n, hyperedges |-> h]) : n \in NodeLists, h \in HyperedgeLists}
       \/ /\ Init2
          /\ tables_file # "ok"
          /\ hyperedges_file \in EarlierHyperedges
          /\ structure_file = AbsentStructure

Next ==
    S2_Load \/ S3_Load \/ S3_ConstructAndSave \/ S4_Load \/ S4_Cluster \/ S4_NoClustering \/ S7_Load

Spec == Init /\ [][Next]_vars


----------------------------------------------------------------------------
\* The ids the nodes list of the loaded structure declares.
DeclaredNodes == {int_value(nodes_from_file[i]) : i \in DOMAIN nodes_from_file}

\* The hyperedge lists the structure file holds, as member sets.
ExportedEdges == {{int_value(l[j]) : j \in DOMAIN l} : l \in Range(structure_file.data.hyperedges)}

C5_PartitionTotality ==
    (pc4 = "done" /\ partition # <<>>) => DOMAIN node_to_cluster = DeclaredNodes

C7_NoSingleMemberEdge ==
    /\ \A e \in Range(H3.edges) \cup Range(H4.edges) \cup Range(H7.edges) : Cardinality(e) # 1
    /\ (H3.exists /\ pc3 = "done") => \A e \in ExportedEdges : Cardinality(e) # 1

\* C8: every hyperedge of the hypergraph that is clustered has all its members
\* in the nodes list of the loaded structure.
C8_UndeclaredDropped ==
    H4.exists => \A e \in Range(H4.edges) : e \subseteq DeclaredNodes

\* C9: every hyperedge passed to the hypergraph constructor in the
\* structure-building, clustering and plotting steps has at least one member.
C9_NoEmptyEdge ==
    \A e \in Range(ctor3) \cup Range(ctor4) \cup Range(ctor7)
             \cup Range(H3.edges) \cup Range(H4.edges) \cup Range(H7.edges) : e # {}

C9_Witness ==
    /\ H4.exists /\ H7.exists
    /\ \E i \in DOMAIN structure_file.data.hyperedges : structure_file.data.hyperedges[i] = <<>>

\* A member that is not an integer: a non-numeric string, a fractional number or null.
NonInteger(x) == x[1] \in {"str", "frac", "null"}
HasNonInteger(l) == \E j \in DOMAIN l : NonInteger(l[j])

\* C10: a loaded hyperedge with a non-integer member is skipped with a warning,
\* every other non-empty hyperedge of the file is loaded, and the step does not abort.
C10_NonIntegerSkipped ==
    (hyperedges_file.state = "json" /\ pc3 # "idle") =>
        /\ pc3 # "exited"
        /\ \A i \in DOMAIN hyperedges_file.data :
              IF HasNonInteger(hyperedges_file.data[i])
              THEN i \in warned3
              ELSE hyperedges_file.data[i] # <<>> =>
                      set_map_int(hyperedges_file.data[i]).value \in Range(ctor3)

----------------------------------------------------------------------------
(* hg-test2.py: the view functions on the individuals and the traits table.  *)
(* A table is its set of column names, its rows (named by the unique         *)
(* individual_id of the row) and one function per column; a column a table   *)
(* lacks is never read, a read of it is a KeyError.                          *)

NumInd == 4
MaxK == 1

FamilyIds == {-1, 0, 1}
Environments == {"E1", "E2"}
Trait0Values == {0, 1, 2}
Trait1Values == {0, 1}
MinSizes == {1, 2, 3}
Modes == {"above", "below", "sideways"}
TraitThreshold == 1
\* k of the trait k-NN call (two groups of k+1 fit in NumInd rows)
TraitK == 1

IndividualCols == {"individual_id", "family_id", "environment"}
TraitsCols == {"individual_id", "trait_0", "trait_1"}

\* The values of one column over n rows; the column a table lacks holds nothing to choose.
ColumnValues(present, n, values, filler) ==
    IF present THEN [1..n -> values] ELSE {[i \in 1..n |-> filler]}

IndividualsWith(c, n) ==
    {[cols |-> c, ids |-> 1..n, family_id |-> f, environment |-> e] :
        f \in ColumnValues("family_id" \in c, n, FamilyIds, 0),
        e \in ColumnValues("environment" \in c, n, Environments, "E1")}

IndividualsTables ==
    UNION {UNION {IndividualsWith(c, n) : c \in SUBSET IndividualCols} : n \in 0..NumInd}

TraitsWith(c, n) ==
    {[cols |-> c, ids |-> 1..n, trait_0 |-> t0, trait_1 |-> t1] :
        t0 \in ColumnValues("trait_0" \in c, n, Trait0Values, 0),
        t1 \in ColumnValues("trait_1" \in c, n, Trait1Values, 0)}

TraitsTables ==
    UNION {UNION {TraitsWith(c, n) : c \in SUBSET TraitsCols} : n \in 0..NumInd}

\* pandas DataFrame.empty: no rows or no columns.
df_empty(df) == df.ids = {} \/ df.cols = {}

\* ---- get_trait_knn_hyperedges ----
RECURSIVE SumOver(_, _)
SumOver(f, S) ==
    IF S = {} THEN 0 ELSE LET i == CHOOSE x \in S : TRUE IN f[i] + SumOver(f, S \ {i})

\* n^2 times the population variance of a column (StandardScaler divides by its root).
VarianceTimesN2(df, c) ==
    LET n == Cardinality(df.ids)
        sq == [i \in df.ids |-> df[c][i] * df[c][i]]
    IN n * SumOver(sq, df.ids) - SumOver(df[c], df.ids) * SumOver(df[c], df.ids)

\* StandardScaler leaves a constant column unscaled (scale 1).
ScaleWeight(df, c, scale_traits) ==
    IF scale_traits /\ c \in df.cols /\ VarianceTimesN2(df, c) # 0
    THEN VarianceTimesN2(df, c) ELSE 1

SqDiff(df, c, i, j) ==
    IF c \in df.cols THEN (df[c][i] - df[c][j]) * (df[c][i] - df[c][j]) ELSE 0

\* The squared euclidean distances of the rows of trait_values, each times the
\* product of the two scale weights (the same positive factor for every pair).
trait_distances(df, scale_traits) ==
    LET w0 == ScaleWeight(df, "trait_0", scale_traits)
        w1 == ScaleWeight(df, "trait_1", scale_traits)
    IN [i \in df.ids, j \in df.ids |->
            SqDiff(df, "trait_0", i, j) * w1 + SqDiff(df, "trait_1", i, j) * w0]

\* nn.kneighbors for the query row i: any k+1 rows none of which is farther than
\* a row left out (the library decides among rows at equal distance).
kneighbors_anyRows(distances, ids, k, i) ==
    {S \in SUBSET ids : Cardinality(S) = k + 1 /\ i \in S}
kneighbors(distances, ids, k, i) ==
    {S \in SUBSET ids :
        /\ Cardinality(S) = k + 1
        /\ \A j \in S, l \in ids \ S : distances[i, j] <= distances[i, l]}

\* The sets of distinct hyperedges the first n rows can give.
RECURSIVE knn_edge_sets(_, _, _, _)
knn_edge_sets(distances, ids, k, n) ==
    IF n = 0 THEN {{}}
    ELSE {R \cup {S} : R \in knn_edge_sets(distances, ids, k, n - 1),
                       S \in kneighbors(distances, ids, k, n)}

\* The outcomes of a call (one per choice the library can make).
get_trait_knn_hyperedges(df, k, scale_traits) ==
    IF df_empty(df) \/ "individual_id" \notin df.cols THEN {Returned(<<>>)}
    ELSE IF df.cols \ {"individual_id"} = {} THEN {Returned(<<>>)}
    ELSE IF Cardinality(df.ids) < k + 1 THEN {Raised("ValueError")}
    ELSE LET distances == trait_distances(df, scale_traits)
         IN {Returned(unique_hyperedges(SetToList(R))) :
               R \in knn_edge_sets(distances, df.ids, k, Cardinality(df.ids))}

\* ---- get_trait_threshold_hyperedges ----
get_trait_threshold_hyperedges_single(df, trait_column, threshold, mode) ==
    IF df_empty(df) \/ trait_column \notin df.cols \/ "individual_id" \notin df.cols
    THEN Returned(<<>>)
    ELSE IF mode \notin {"above", "below"} THEN Returned(<<>>)
    ELSE LET selected_individuals ==
                 {i \in df.ids : IF mode = "above" THEN df[trait_column][i] > threshold
                                                   ELSE df[trait_column][i] < threshold}
         IN IF Cardinality(selected_individuals) >= 1
            THEN Returned(<<selected_individuals>>) ELSE Returned(<<>>)
get_trait_threshold_hyperedges(df, trait_column, threshold, mode) ==
    IF df_empty(df) \/ trait_column \notin df.cols \/ "individual_id" \notin df.cols
    THEN Returned(<<>>)
    ELSE IF mode \notin {"above", "below"} THEN Returned(<<>>)
    ELSE LET selected_individuals ==
                 {i \in df.ids : IF mode = "above" THEN df[trait_column][i] > threshold
                                                   ELSE df[trait_column][i] < threshold}
         IN IF Cardinality(selected_individuals) > 1
            THEN Returned(<<selected_individuals>>) ELSE Returned(<<>>)

\* ---- get_family_hyperedges ----
\* for _, group in df.groupby(col): the groups, as sets of rows.  groupby yields
\* them in key order; every caller hands the list to unique_hyperedges, which
\* rebuilds the order from the set.
groupby(rows, column) == {{i \in rows : column[i] = key} : key \in {column[i] : i \in rows}}

get_family_hyperedges_keepUnassigned(df, min_family_size) ==
    IF df_empty(df) \/ "family_id" \notin df.cols \/ "individual_id" \notin df.cols
    THEN Returned(<<>>)
    ELSE LET valid_families == df.ids
             hyperedges == SetToList({group \in groupby(valid_families, df.family_id) :
                                        Cardinality(group) >= min_family_size})
         IN Returned(unique_hyperedges(hyperedges))
get_family_hyperedges(df, min_family_size) ==
    IF df_empty(df) \/ "family_id" \notin df.cols \/ "individual_id" \notin df.cols
    THEN Returned(<<>>)
    ELSE LET valid_families == {i \in df.ids : df.family_id[i] # -1}
             hyperedges == SetToList({group \in groupby(valid_families, df.family_id) :
                                        Cardinality(group) >= min_family_size})
         IN Returned(unique_hyperedges(hyperedges))

\* ---- get_environment_hyperedges ----
get_environment_hyperedges_noColumnCheck(df, min_env_size) ==
    IF df_empty(df) THEN Returned(<<>>)
    ELSE IF ~ ({"environment", "individual_id"} \subseteq df.cols) THEN Raised("KeyError")
    ELSE LET hyperedges == SetToList({group \in groupby(df.ids, df.environment) :
                                        Cardinality(group) >= min_env_size})
         IN Returned(unique_hyperedges(hyperedges))
get_environment_hyperedges(df, min_env_size) ==
    IF df_empty(df) \/ "environment" \notin df.cols \/ "individual_id" \notin df.cols
    THEN Returned(<<>>)
    ELSE LET hyperedges == SetToList({group \in groupby(df.ids, df.environment) :
                                        Cardinality(group) >= min_env_size})
         IN Returned(unique_hyperedges(hyperedges))

\* ---- get_family_in_env_hyperedges ----
get_family_in_env_hyperedges_strictSize(df, min_size) ==
    IF "family_id" \notin df.cols \/ "environment" \notin df.cols
       \/ "individual_id" \notin df.cols
    THEN Returned(<<>>)
    ELSE LET valid_families == {i \in df.ids : df.family_id[i] # -1}
             cells == UNION {groupby(family_members, df.environment) :
                               family_members \in groupby(valid_families, df.family_id)}
             combined_hyperedges ==
                 SetToList({members_in_env \in cells : Cardinality(members_in_env) > min_size})
         IN Returned(unique_hyperedges(combined_hyperedges))
get_family_in_env_hyperedges(df, min_size) ==
    IF "family_id" \notin df.cols \/ "environment" \notin df.cols
       \/ "individual_id" \notin df.cols
    THEN Returned(<<>>)
    ELSE LET valid_families == {i \in df.ids : df.family_id[i] # -1}
             cells == UNION {groupby(family_members, df.environment) :
                               family_members \in groupby(valid_families, df.family_id)}
             combined_hyperedges ==
                 SetToList({members_in_env \in cells : Cardinality(members_in_env) >= min_size})
         IN Returned(unique_hyperedges(combined_hyperedges))

\* ---- the calls, in the order of the script ----
\* A call that returned is followed by the next call; an exception ends the run.
AfterCall(outcome, next) == IF outcome.error = "none" THEN next ELSE "crashed"

UnchangedByViews ==
    UNCHANGED <<individuals_df, traits_df, genetic_dist_df, args, vars2, files, vars3, vars4, vars7,
                vars5, sim>>

\* lines 138-141
CallTraitKnn ==
    /\ pcv = "trait_knn"
    /\ \E outcome \in get_trait_knn_hyperedges(traits_df, args.k, args.scale_traits) :
          /\ results' = [results EXCEPT !.trait_knn = outcome]
          /\ pcv' = AfterCall(outcome, "done")
    /\ UnchangedByViews

\* lines 143-145 (the call the script keeps as a comment)
CallTraitThreshold ==
    /\ pcv = "trait_threshold"
    /\ LET outcome == get_trait_threshold_hyperedges(traits_df, "trait_0", args.threshold, args.mode)
       IN /\ results' = [results EXCEPT !.trait_threshold = outcome]
          /\ pcv' = AfterCall(outcome, "done")
    /\ UnchangedByViews

\* lines 162-165
CallFamily ==
    /\ pcv = "family"
    /\ LET outcome == get_family_hyperedges(individuals_df, args.min_size)
       IN /\ results' = [results EXCEPT !.family = outcome]
          /\ pcv' = AfterCall(outcome, "environment")
    /\ UnchangedByViews

\* lines 167-169
CallEnvironment ==
    /\ pcv = "environment"
    /\ LET outcome == get_environment_hyperedges(individuals_df, args.min_size)
       IN /\ results' = [results EXCEPT !.environment = outcome]
          /\ pcv' = AfterCall(outcome, "family_in_env")
    /\ UnchangedByViews

\* lines 171-173
CallFamilyInEnv ==
    /\ pcv = "family_in_env"
    /\ LET outcome == get_family_in_env_hyperedges(individuals_df, args.min_size)
       IN /\ results' = [results EXCEPT !.family_in_env = outcome]
          /\ pcv' = AfterCall(outcome, "done")
    /\ UnchangedByViews

\* The script's other steps are not part of these runs.
IdleScripts ==
    /\ Done2
    /\ hyperedges_file = AbsentFile
    /\ structure_file = AbsentStructure
    /\ assignments_file = AbsentFile
    /\ Idle3 /\ Idle4 /\ Idle7 /\ Idle5 /\ IdleSim

\* Either the traits table is loaded and one of the trait views is called on it,
\* or the individuals table is and the family and environment views are.
InitTables ==
    /\ IdleScripts
    /\ genetic_dist_df = EmptyMatrix
    /\ results = NoResults
    /\ \/ /\ pcv = "trait_knn"
          /\ traits_df \in TraitsTables
          /\ individuals_df = EmptyIndividuals
          /\ args \in [min_size : {0}, k : {TraitK}, threshold : {0},
                       mode : {"above"}, scale_traits : BOOLEAN]
       \/ /\ pcv = "trait_threshold"
          /\ traits_df \in TraitsTables
          /\ individuals_df = EmptyIndividuals
          /\ args \in [min_size : {0}, k : {0}, threshold : {TraitThreshold},
                       mode : Modes, scale_traits : {TRUE}]
       \/ /\ pcv = "family"
          /\ individuals_df \in IndividualsTables
          /\ traits_df = EmptyTraits
          /\ args \in [min_size : MinSizes, k : {0}, threshold : {0},
                       mode : {"above"}, scale_traits : {TRUE}]

NextTables ==
    CallTraitKnn \/ CallTraitThreshold \/ CallFamily \/ CallEnvironment \/ CallFamilyInEnv

SpecTables == InitTables /\ [][NextTables]_vars

Called(view) == results[view].error # "not called"

----------------------------------------------------------------------------
(* Claims on the table views.                                                *)

\* The view was called on a table that lacks a column it requires.
MissingColumn(view) ==
    CASE view = "trait_knn" ->
            "individual_id" \notin traits_df.cols \/ traits_df.cols \ {"individual_id"} = {}
      [] view = "trait_threshold" -> ~ ({"individual_id", "trait_0"} \subseteq traits_df.cols)
      [] view = "family" -> ~ ({"individual_id", "family_id"} \subseteq individuals_df.cols)
      [] view = "environment" -> ~ ({"individual_id", "environment"} \subseteq individuals_df.cols)
      [] view = "family_in_env" -> ~ (IndividualCols \subseteq individuals_df.cols)

TableViews == {"trait_knn", "trait_threshold", "family", "environment", "family_in_env"}

\* C11: a view function called on a table that lacks a column it requires
\* returns the empty list and raises nothing, so the run goes on to the views
\* after it: no run is ended by a view that missed a column.
C11_MissingColumnsNonFatal ==
    \A view \in TableViews :
        (Called(view) /\ MissingColumn(view)) =>
            /\ results[view] = Returned(<<>>)
            /\ pcv # "crashed"

\* The environment column is absent: the environment and the family-in-environment
\* view gave nothing, the family view before them gave its hyperedges, the run ended.
C11_Witness ==
    /\ pcv = "done"
    /\ "environment" \notin individuals_df.cols
    /\ results.environment = Returned(<<>>)
    /\ results.family_in_env = Returned(<<>>)
    /\ results.family.edges # <<>>

\* The individuals of a family id.
FamilyMembers(f) == {i \in individuals_df.ids : individuals_df.family_id[i] = f}

\* The family ids other than -1 with at least m members.
FamiliesOfSize(m) ==
    {f \in {individuals_df.family_id[i] : i \in individuals_df.ids} \ {-1} :
        Cardinality(FamilyMembers(f)) >= m}

\* C12: the family view returns exactly one hyperedge per family id other than
\* -1 with at least m members, equal to the set of that family's individuals,
\* and no individual with family_id -1 is in any hyperedge.
C12_FamilyView ==
    (Called("family") /\ ~ MissingColumn("family")) =>
        /\ results.family.error = "none"
        /\ \A f \in FamiliesOfSize(args.min_size) :
              Count(FamilyMembers(f), results.family.edges) = 1
        /\ Range(results.family.edges) = {FamilyMembers(f) : f \in FamiliesOfSize(args.min_size)}
        /\ \A i \in FamilyMembers(-1) : \A e \in Range(results.family.edges) : i \notin e

\* The unassigned individuals are as many as the minimum size asks and still
\* give no hyperedge: the one returned is that of the one family large enough.
C12_Witness ==
    /\ Called("family") /\ ~ MissingColumn("family")
    /\ args.min_size = 2
    /\ Cardinality(FamilyMembers(-1)) >= args.min_size
    /\ Len(results.family.edges) = 1

\* The individuals whose trait_0 satisfies the inequality of the call.
Selected ==
    {i \in traits_df.ids : IF args.mode = "above" THEN traits_df.trait_0[i] > args.threshold
                                               ELSE traits_df.trait_0[i] < args.threshold}

\* C17: for a trait column, a threshold and a direction, the trait threshold
\* view returns the single hyperedge of all individuals satisfying the
\* inequality when there are at least 2 of them, and nothing otherwise.
C17_TraitThreshold ==
    (Called("trait_threshold") /\ ~ MissingColumn("trait_threshold")
        /\ args.mode \in {"above", "below"}) =>
        results.trait_threshold =
            IF Cardinality(Selected) >= 2 THEN Returned(<<Selected>>) ELSE Returned(<<>>)

\* A call selected exactly one individual and returned nothing.
C17_Witness ==
    /\ Called("trait_threshold") /\ ~ MissingColumn("trait_threshold")
    /\ args.mode = "below"
    /\ Cardinality(Selected) = 1
    /\ results.trait_threshold = Returned(<<>>)

\* The individuals of a (family, environment) cell.
CellMembers(f, e) == {i \in FamilyMembers(f) : individuals_df.environment[i] = e}

\* The (family other than -1, environment) cells with at least m members.
CellsOfSize(m) ==
    {c \in (FamilyIds \ {-1}) \X Environments :
        CellMembers(c[1], c[2]) # {} /\ Cardinality(CellMembers(c[1], c[2])) >= m}

\* C18: the family-within-environment view returns exactly one hyperedge per
\* (family other than -1, environment) cell with at least the minimum number of
\* members, equal to the set of the cell's individuals, so the members of a
\* hyperedge share one family id and one environment.
C18_FamilyInEnv ==
    (Called("family_in_env") /\ ~ MissingColumn("family_in_env")) =>
        /\ results.family_in_env.error = "none"
        /\ \A c \in CellsOfSize(args.min_size) :
              Count(CellMembers(c[1], c[2]), results.family_in_env.edges) = 1
        /\ Range(results.family_in_env.edges) =
              {CellMembers(c[1], c[2]) : c \in CellsOfSize(args.min_size)}
        /\ \A e \in Range(results.family_in_env.edges) : \A i, j \in e :
              /\ individuals_df.family_id[i] = individuals_df.family_id[j]
              /\ individuals_df.environment[i] = individuals_df.environment[j]
              /\ individuals_df.family_id[i] # -1

\* A family of three split over two environments, minimum size 2: one cell is
\* returned, the other is too small; the family view returned all three.
C18_Witness ==
    /\ Called("family_in_env") /\ ~ MissingColumn("family_in_env")
    /\ args.min_size = 2
    /\ Len(results.family_in_env.edges) = 1
    /\ \E f \in FamilyIds \ {-1} :
          /\ Cardinality(FamilyMembers(f)) = 3
          /\ Cardinality(CellMembers(f, "E1")) = 2
          /\ Cardinality(CellMembers(f, "E2")) = 1
          /\ results.family_in_env.edges = <<CellMembers(f, "E1")>>

\* The two groups G and the rest: each has at least k+1 members and every
\* distance inside a group is smaller than every distance across.
Separated(distances, G) ==
    LET rest == traits_df.ids \ G
    IN /\ Cardinality(G) >= args.k + 1
       /\ Cardinality(rest) >= args.k + 1
       /\ \A a \in G, b \in rest :
             /\ \A i, j \in G : i # j => distances[i, j] < distances[a, b]
             /\ \A i, j \in rest : i # j => distances[i, j] < distances[a, b]

\* Every hyperedge the trait k-NN view returned has k+1 members and lies in G or
\* in the rest.
EdgesInsideGroups(G) ==
    \A e \in Range(results.trait_knn.edges) :
        /\ Cardinality(e) = args.k + 1
        /\ e \subseteq G \/ e \subseteq traits_df.ids \ G

\* C16 as stated: when the individuals fall into two groups of at least k+1
\* members with every within-group distance of the trait vectors smaller than
\* every cross-group one, every hyperedge of the trait k-NN view has k+1
\* members and lies inside one group.
C16_RawSeparation ==
    (Called("trait_knn") /\ ~ MissingColumn("trait_knn")) =>
        LET distances == trait_distances(traits_df, FALSE)
        IN \A G \in SUBSET traits_df.ids : Separated(distances, G) => EdgesInsideGroups(G)

\* C16 amended: the same, the distances being those the view computes, between
\* the standardized trait vectors when scale_traits is on.
C16_ViewSeparation ==
    (Called("trait_knn") /\ ~ MissingColumn("trait_knn")) =>
        LET distances == trait_distances(traits_df, args.scale_traits)
        IN \A G \in SUBSET traits_df.ids : Separated(distances, G) => EdgesInsideGroups(G)

\* Two trait columns, scaling on, two groups separated in the distances of the
\* view, and one hyperedge for each group.
C16_Witness ==
    /\ Called("trait_knn")
    /\ TraitsCols \subseteq traits_df.cols
    /\ args.scale_traits
    /\ \E i, j \in traits_df.ids : traits_df.trait_1[i] # traits_df.trait_1[j]
    /\ \E G \in SUBSET traits_df.ids :
          /\ Separated(trait_distances(traits_df, args.scale_traits), G)
          /\ \E e1, e2 \in Range(results.trait_knn.edges) : e1 \subseteq G /\ e2 \cap G = {}

----------------------------------------------------------------------------
(* hg-test2.py: the view functions on the genetic distance matrix.  The       *)
(* matrix is the one script 1 writes: square over the individual ids,         *)
(* symmetric, zero on the diagonal, no negative entry.                        *)

NumGen == 3

DistValues == {0, 1, 2}
DistThresholds == {1, 2}

Pairs(n) == {p \in (1..n) \X (1..n) : p[1] < p[2]}

MatricesOver(n) ==
    {[ids |-> 1..n,
      dist |-> [i \in 1..n, j \in 1..n |->
                  IF i = j THEN 0 ELSE IF i < j THEN u[<<i, j>>] ELSE u[<<j, i>>]]] :
        u \in [Pairs(n) -> DistValues]}

GeneticMatrices == UNION {MatricesOver(n) : n \in 0..NumGen}

\* ---- get_genetic_knn_hyperedges ----
\* genetic_dist_df.iloc[i].sort_values().head(count).index: the first count
\* labels of row i in ascending distance; sort_values does not say which of two
\* equal distances comes first.
sorted_head(distances, ids, count, i) ==
    {S \in SUBSET ids :
        /\ Cardinality(S) = IF count < Cardinality(ids) THEN count ELSE Cardinality(ids)
        /\ \A j \in S, l \in ids \ S : distances[i, j] <= distances[i, l]}

\* The lists hyperedges can be after the loop over the first n rows.
RECURSIVE knn_hyperedges(_, _, _)
knn_hyperedges(df, k, n) ==
    IF n = 0 THEN {<<>>}
    ELSE {Append(h, S) : h \in knn_hyperedges(df, k, n - 1),
                         S \in sorted_head(df.dist, df.ids, k + 1, n)}

\* The outcomes of a call, each with the list hyperedges it was made from.
get_genetic_knn_hyperedges(df, k) ==
    IF df.ids = {} THEN {[rows |-> <<>>, out |-> Returned(<<>>)]}
    ELSE {[rows |-> h, out |-> Returned(unique_hyperedges(h))] :
            h \in knn_hyperedges(df, k, Cardinality(df.ids))}

\* ---- get_genetic_distance_threshold_hyperedges ----
\* close_neighbor_ids of row i: the column labels where the row is below the threshold.
close_neighbor_ids(df, dist_threshold, i) == {j \in df.ids : df.dist[i, j] < dist_threshold}

\* What the loop did with each row, and the list it returned.
get_genetic_distance_threshold_hyperedges_othersOnly(df, dist_threshold, min_size) ==
    LET n == Cardinality(df.ids)
        close == [i \in 1..n |-> close_neighbor_ids(df, dist_threshold, i) \ {i}]
        rows == [i \in 1..n |-> [candidates |-> close[i],
                                 appended |-> Cardinality(close[i]) >= min_size]]
        hyperedges == SelectSeq(close, LAMBDA S : Cardinality(S) >= min_size)
    IN [rows |-> rows, out |-> Returned(unique_hyperedges(hyperedges))]
get_genetic_distance_threshold_hyperedges_noUnique(df, dist_threshold, min_size) ==
    LET n == Cardinality(df.ids)
        close == [i \in 1..n |-> close_neighbor_ids(df, dist_threshold, i)]
        rows == [i \in 1..n |-> [candidates |-> close[i],
                                 appended |-> Cardinality(close[i]) >= min_size]]
        hyperedges == SelectSeq(close, LAMBDA S : Cardinality(S) >= min_size)
    IN [rows |-> rows, out |-> Returned(hyperedges)]
get_genetic_distance_threshold_hyperedges(df, dist_threshold, min_size) ==
    LET n == Cardinality(df.ids)
        close == [i \in 1..n |-> close_neighbor_ids(df, dist_threshold, i)]
        rows == [i \in 1..n |-> [candidates |-> close[i],
                                 appended |-> Cardinality(close[i]) >= min_size]]
        hyperedges == SelectSeq(close, LAMBDA S : Cardinality(S) >= min_size)
    IN [rows |-> rows, out |-> Returned(unique_hyperedges(hyperedges))]

\* lines 151-154
CallGeneticKnn ==
    /\ pcv = "genetic_knn"
    /\ \E outcome \in get_genetic_knn_hyperedges(genetic_dist_df, args.k) :
          /\ results' = [results EXCEPT !.genetic_knn = outcome.out, !.knn_rows = outcome.rows]
          /\ pcv' = AfterCall(outcome.out, "done")
    /\ UnchangedByViews

\* lines 156-158 (the call the script keeps as a comment)
CallGeneticThreshold ==
    /\ pcv = "genetic_distance_threshold"
    /\ LET outcome == get_genetic_distance_threshold_hyperedges(
                          genetic_dist_df, args.threshold, args.min_size)
       IN /\ results' = [results EXCEPT !.genetic_distance_threshold = outcome.out,
                                        !.threshold_rows = outcome.rows]
          /\ pcv' = AfterCall(outcome.out, "done")
    /\ UnchangedByViews

\* The genetic distance matrix is loaded and one of its two views is called.
InitGenetic ==
    /\ IdleScripts
    /\ individuals_df = EmptyIndividuals
    /\ traits_df = EmptyTraits
    /\ genetic_dist_df \in GeneticMatrices
    /\ results = NoResults
    /\ \/ /\ pcv = "genetic_knn"
          /\ args \in [min_size : {0}, k : 1..MaxK, threshold : {0},
                       mode : {"above"}, scale_traits : {TRUE}]
       \/ /\ pcv = "genetic_distance_threshold"
          /\ args \in [min_size : MinSizes, k : {0}, threshold : DistThresholds,
                       mode : {"above"}, scale_traits : {TRUE}]

NextGenetic == CallGeneticKnn \/ CallGeneticThreshold

SpecGenetic == InitGenetic /\ [][NextGenetic]_vars

----------------------------------------------------------------------------
(* Claims on the genetic views.                                              *)

\* The individuals other than i at a distance from i strictly below the threshold.
OthersBelow(i) ==
    {j \in genetic_dist_df.ids \ {i} : genetic_dist_df.dist[i, j] < args.threshold}

\* The individuals, i included, at a distance from i strictly below the threshold.
AllBelow(i) ==
    {j \in genetic_dist_df.ids : genetic_dist_df.dist[i, j] < args.threshold}

\* C13 as stated: for each individual i the candidate set of the genetic
\* distance-threshold view is the set of the other individuals at a distance
\* strictly below the threshold, and a hyperedge is emitted for i exactly when
\* that set has at least the minimum size.
C13_OthersBelowThreshold ==
    Called("genetic_distance_threshold") =>
        \A i \in genetic_dist_df.ids :
            /\ results.threshold_rows[i].candidates = OthersBelow(i)
            /\ results.threshold_rows[i].appended = (Cardinality(OthersBelow(i)) >= args.min_size)

\* C13 amended: the candidate set of i is the set of all individuals, i itself
\* included when its diagonal entry is below the threshold, at a distance
\* strictly below the threshold; a hyperedge equal to that set is emitted for i
\* exactly when the set has at least the minimum size.
C13_AllBelowThreshold ==
    Called("genetic_distance_threshold") =>
        /\ \A i \in genetic_dist_df.ids :
              /\ results.threshold_rows[i].candidates = AllBelow(i)
              /\ results.threshold_rows[i].appended = (Cardinality(AllBelow(i)) >= args.min_size)
        /\ Range(results.genetic_distance_threshold.edges) =
              {AllBelow(i) : i \in {j \in genetic_dist_df.ids :
                                      Cardinality(AllBelow(j)) >= args.min_size}}

\* One individual has a single other one below the threshold and, with minimum
\* size 2, gets the hyperedge of the two; another has none and gets nothing.
C13_Witness ==
    /\ Called("genetic_distance_threshold")
    /\ args.min_size = 2
    /\ \E i, l \in genetic_dist_df.ids :
          /\ Cardinality(OthersBelow(i)) = 1
          /\ results.threshold_rows[i].appended
          /\ AllBelow(i) \in Range(results.genetic_distance_threshold.edges)
          /\ OthersBelow(l) = {}
          /\ ~ results.threshold_rows[l].appended

\* Exactly the pair {a, b} is below the threshold, every other off-diagonal
\* entry is above it.
SingleClosePair(a, b) ==
    /\ a # b
    /\ genetic_dist_df.dist[a, b] < args.threshold
    /\ \A i, j \in genetic_dist_df.ids :
          (i # j /\ {i, j} # {a, b}) => genetic_dist_df.dist[i, j] > args.threshold

\* C14: on a matrix where exactly one pair {a, b} is below the threshold and
\* every other off-diagonal entry is above it, with minimum size 2, the genetic
\* distance-threshold view returns exactly one hyperedge, {a, b}.
C14_SingleClosePair ==
    (Called("genetic_distance_threshold") /\ args.min_size = 2) =>
        \A a, b \in genetic_dist_df.ids :
            SingleClosePair(a, b) => results.genetic_distance_threshold = Returned(<<{a, b}>>)

\* Three individuals, one close pair: both rows of the pair were appended, the
\* third was not, one hyperedge came back.
C14_Witness ==
    /\ Called("genetic_distance_threshold") /\ args.min_size = 2
    /\ Cardinality(genetic_dist_df.ids) = 3
    /\ \E a, b \in genetic_dist_df.ids :
          /\ SingleClosePair(a, b)
          /\ results.threshold_rows[a].appended /\ results.threshold_rows[b].appended
          /\ \E c \in genetic_dist_df.ids \ {a, b} : ~ results.threshold_rows[c].appended
          /\ Len(results.genetic_distance_threshold.edges) = 1

\* C15: for a matrix over n > k individuals the hyperedge of row i of the
\* genetic k-NN view has exactly k+1 members, contains i, and its other k
\* members are the k individuals nearest to i.
C15_GeneticKnnRow ==
    (Called("genetic_knn") /\ Cardinality(genetic_dist_df.ids) > args.k) =>
        \A i \in genetic_dist_df.ids :
            LET e == results.knn_rows[i]
            IN /\ Cardinality(e) = args.k + 1
               /\ i \in e
               /\ \A j \in e \ {i}, l \in genetic_dist_df.ids \ e :
                     genetic_dist_df.dist[i, j] <= genetic_dist_df.dist[i, l]

----------------------------------------------------------------------------
(* Claims on the cluster-assignments table of the clustering step.           *)

\* The rows (individual_id, cluster_id) of the table the clustering step wrote.
AssignmentRows == assignments_file.data

\* The largest cluster_id among the first n rows, -1 before the first row.
RECURSIVE MaxLabelBefore(_)
MaxLabelBefore(n) ==
    IF n = 0 THEN -1
    ELSE IF AssignmentRows[n][2] > MaxLabelBefore(n - 1)
         THEN AssignmentRows[n][2] ELSE MaxLabelBefore(n - 1)

\* C19 as stated: scanning the nodes in ascending id, the smallest id has
\* label 0 and a label first seen later is one more than the largest label
\* seen before it.
C19_FirstAppearanceOrder ==
    assignments_file.state = "csv" =>
        \A i \in DOMAIN AssignmentRows : AssignmentRows[i][2] <= MaxLabelBefore(i - 1) + 1

\* C19 amended: a node's label is the 0-based position, in the list the
\* detector returned, of the cluster that holds it; the labels in the table are
\* exactly 0 .. K-1 for the K clusters returned.
C19_PositionLabels ==
    assignments_file.state = "csv" =>
        /\ {AssignmentRows[i][2] : i \in DOMAIN AssignmentRows} = 0 .. (Len(partition) - 1)
        /\ \A i \in DOMAIN AssignmentRows :
              AssignmentRows[i][1] \in partition[AssignmentRows[i][2] + 1]

\* The detector listed the cluster of the smallest node second: that node has label 1.
C19_Witness ==
    /\ assignments_file.state = "csv"
    /\ Len(partition) = 2
    /\ AssignmentRows[1][2] = 1
    /\ AssignmentRows[1][1] \in partition[2]

----------------------------------------------------------------------------
(* 05_evaluate_clustering_results.py *)

\* 05: 16-32: both tables are read; a missing or unreadable file, or a table
\* without the individual_id column, ends the script with exit()
S5_Load ==
    /\ pc5 = "idle"
    /\ pc5' = IF assignments_file.state = "csv" /\ "individual_id" \in individuals_df.cols
              THEN "loaded" ELSE "exited"
    /\ UNCHANGED <<merged_df, warned5, evaluated, files, vars2, vars3, vars4, vars7, varsV, sim>>

\* Faulty variant: a left join, every individual keeps a row (cluster_id missing, -1 here).
pd_merge_left(df, rows) ==
    LET left == SortedList(df.ids)
    IN Flatten([i \in DOMAIN left |->
                   IF \E j \in DOMAIN rows : rows[j][1] = left[i]
                   THEN SelectSeq(rows, LAMBDA r : r[1] = left[i])
                   ELSE <<<<left[i], -1>>>>])

\* 05: 38: pd.merge(individuals_df, cluster_assignments_df, on='individual_id', how='inner'):
\* one row per pair of rows with the same id, in the order of the left table; the
\* other columns of the individual (true_group among them) come with its id.
pd_merge(df, rows) ==
    LET left == SortedList(df.ids)
    IN Flatten([i \in DOMAIN left |-> SelectSeq(rows, LAMBDA r : r[1] = left[i])])

\* 05: 38-73: merge, warning on a row count other than that of the individuals,
\* exit() on an empty merge, metrics and contingency table on merged_df
S5_MergeEvaluate ==
    /\ pc5 = "loaded"
    /\ LET merged == pd_merge(individuals_df, assignments_file.data)
           mismatch == Len(merged) # Cardinality(individuals_df.ids)
       IN /\ merged_df' = merged
          /\ warned5' = mismatch
          /\ IF mismatch /\ Len(merged) = 0
             THEN pc5' = "exited" /\ evaluated' = evaluated
             ELSE pc5' = "done" /\ evaluated' = merged
    /\ UNCHANGED <<files, vars2, vars3, vars4, vars7, varsV, sim>>

\* The assignments tables script 04 can have written for ids up to n.
AssignmentTables(n) ==
    UNION {{CsvFile(assignment_rows(f)) : f \in [S -> {0, 1}]} : S \in SUBSET (1..n)}

InitEvaluate ==
    /\ Done2 /\ Idle3 /\ Idle4 /\ Idle7 /\ Idle5 /\ IdleSim
    /\ hyperedges_file = AbsentFile
    /\ structure_file = AbsentStructure
    /\ assignments_file \in {AbsentFile, CorruptFile} \cup AssignmentTables(NumInd)
    /\ pcv = "idle"
    /\ individuals_df \in UNION {IndividualsWith(c, n) : c \in {{}, {"individual_id"}}, n \in 0..NumInd}
    /\ traits_df = EmptyTraits
    /\ genetic_dist_df = EmptyMatrix
    /\ args = NoArgs
    /\ results = NoResults

NextEvaluate == S5_Load \/ S5_MergeEvaluate

SpecEvaluate == InitEvaluate /\ [][NextEvaluate]_vars

----------------------------------------------------------------------------
(* 01_simulate_population_data.py; distances are in thousandths *)

GENETIC_DIST_BASE == 800
GENETIC_DIST_SAME_GROUP_EFFECT == -300
GENETIC_DIST_SAME_FAMILY_EFFECT == -400
GENETIC_DIST_HYBRID_FACTOR == 500

\* 01: 62: individual_ids = np.arange(N_INDIVIDUALS)
individual_ids == 0..(N_INDIVIDUALS - 1)

\* 01: 36-55: assign_groups_and_hybrids gives every individual one of the labels, in
\* shuffled order; the three assignments that repeat G1, G2, Hybrid_G1G2 from any start
GroupAssignments ==
    {[a \in individual_ids |-> <<"G1", "G2", "Hybrid_G1G2">>[((a + k) % 3) + 1]] : k \in 0..2}

\* np.random.uniform(GENETIC_DIST_BASE - 0.1, GENETIC_DIST_BASE + 0.1): the two ends
BaseDraws == {GENETIC_DIST_BASE - 100, GENETIC_DIST_BASE + 99}

\* np.random.uniform(-0.05, 0.05): the two ends
NoiseDraws == {-50, 49}

\* 01: 129-130: a matrix of draws with the diagonal filled with 0; one draw
\* above the diagonal and one below it
BaseMatrices ==
    {[a \in individual_ids, b \in individual_ids |->
         IF a = b THEN 0 ELSE IF a < b THEN u ELSE l] : u, l \in BaseDraws}

\* 01: 63-74: ids, true groups, family_ids all -1, the shuffled pool
InitSimulate ==
    /\ \E g \in GroupAssignments :
       \E p \in {q \in [1..N_INDIVIDUALS -> individual_ids] :
                    \A a, b \in 1..N_INDIVIDUALS : a # b => q[a] # q[b]} :
          sim = [pc |-> "families", true_group |-> g,
                 family_ids |-> [a \in individual_ids |-> -1], current_family_id |-> 0,
                 pool |-> p, iter |-> 0, matrix |-> <<>>, i |-> 0, j |-> 0]
    /\ Done2 /\ Idle3 /\ Idle4 /\ Idle7 /\ IdleViews /\ Idle5
    /\ hyperedges_file = AbsentFile
    /\ structure_file = AbsentStructure
    /\ assignments_file = AbsentFile

UnchangedBySimulation == UNCHANGED <<vars2, files, vars3, vars4, vars7, varsV, vars5>>

\* Faulty variant: every family gets the same id.
S1_FamilyIteration_sameId ==
    /\ sim.pc = "families"
    /\ LET after == IF sim.iter + 1 = N_FAMILIES THEN "matrix" ELSE "families"
       IN IF Len(sim.pool) < FAMILY_SIZE_MIN
          THEN sim' = [sim EXCEPT !.pc = "matrix"]
          ELSE \E family_size \in FAMILY_SIZE_MIN..FAMILY_SIZE_MAX :
                  IF Len(sim.pool) < family_size
                  THEN sim' = [sim EXCEPT !.pc = after, !.iter = @ + 1]
                  ELSE LET rest == Len(sim.pool) - family_size
                           members == {sim.pool[a] : a \in (rest + 1)..Len(sim.pool)}
                       IN sim' = [sim EXCEPT
                                    !.pc = after, !.iter = @ + 1,
                                    !.pool = SubSeq(sim.pool, 1, rest),
                                    !.family_ids = [a \in individual_ids |->
                                                       IF a \in members THEN sim.current_family_id
                                                       ELSE sim.family_ids[a]]]
    /\ UnchangedBySimulation

\* 01: 76-86: one iteration of the family loop: break on a pool smaller than
\* FAMILY_SIZE_MIN, continue on a pool smaller than the size drawn, otherwise
\* the last family_size entries of the pool get the next family id
S1_FamilyIteration ==
    /\ sim.pc = "families"
    /\ LET after == IF sim.iter + 1 = N_FAMILIES THEN "matrix" ELSE "families"
       IN IF Len(sim.pool) < FAMILY_SIZE_MIN
          THEN sim' = [sim EXCEPT !.pc = "matrix"]
          ELSE \E family_size \in FAMILY_SIZE_MIN..FAMILY_SIZE_MAX :
                  IF Len(sim.pool) < family_size
                  THEN sim' = [sim EXCEPT !.pc = after, !.iter = @ + 1]
                  ELSE LET rest == Len(sim.pool) - family_size
                           members == {sim.pool[a] : a \in (rest + 1)..Len(sim.pool)}
                       IN sim' = [sim EXCEPT
                                    !.pc = after, !.iter = @ + 1,
                                    !.pool = SubSeq(sim.pool, 1, rest),
                                    !.current_family_id = @ + 1,
                                    !.family_ids = [a \in individual_ids |->
                                                       IF a \in members THEN sim.current_family_id
                                                       ELSE sim.family_ids[a]]]
    /\ UnchangedBySimulation

\* 01: 129-130
S1_DrawMatrix ==
    /\ sim.pc = "matrix"
    /\ \E m \in BaseMatrices :
          sim' = [sim EXCEPT !.pc = IF N_INDIVIDUALS < 2 THEN "done" ELSE "adjust",
                             !.matrix = m, !.i = 0, !.j = 1]
    /\ UnchangedBySimulation

\* 01: 134-150: the distance of the pair (a, b) from the draw the matrix holds
adjusted_dist(s, a, b, noise) ==
    LET group_i == s.true_group[a]
        group_j == s.true_group[b]
        family_i == s.family_ids[a]
        family_j == s.family_ids[b]
        is_hybrid_i == group_i = "Hybrid_G1G2"
        is_hybrid_j == group_j = "Hybrid_G1G2"
        d0 == s.matrix[a, b]
        d1 == IF group_i = group_j /\ ~is_hybrid_i THEN d0 + GENETIC_DIST_SAME_GROUP_EFFECT ELSE d0
        d2 == IF family_i # -1 /\ family_i = family_j THEN d1 + GENETIC_DIST_SAME_FAMILY_EFFECT ELSE d1
        mid == GENETIC_DIST_BASE + GENETIC_DIST_SAME_GROUP_EFFECT \div 2
        d3 == IF (is_hybrid_i /\ group_j \in {"G1", "G2"}) \/ (is_hybrid_j /\ group_i \in {"G1", "G2"})
              THEN (mid * GENETIC_DIST_HYBRID_FACTOR) \div 1000 + noise
              ELSE IF is_hybrid_i /\ is_hybrid_j
              THEN (mid * (GENETIC_DIST_HYBRID_FACTOR + 100)) \div 1000 + noise
              ELSE d2
    IN IF d3 < 10 THEN 10 ELSE d3

\* Faulty variant: only the entry above the diagonal is written.
S1_AdjustPair_upperOnly ==
    /\ sim.pc = "adjust"
    /\ \E noise \in NoiseDraws :
          LET dist == adjusted_dist(sim, sim.i, sim.j, noise)
              last_j == sim.j = N_INDIVIDUALS - 1
              last_i == sim.i + 1 = N_INDIVIDUALS - 1
          IN sim' = [sim EXCEPT
                       !.matrix = [sim.matrix EXCEPT ![sim.i, sim.j] = dist],
                       !.pc = IF last_j /\ last_i THEN "done" ELSE "adjust",
                       !.i = IF last_j THEN @ + 1 ELSE @,
                       !.j = IF last_j THEN sim.i + 2 ELSE @ + 1]
    /\ UnchangedBySimulation

\* 01: 132-151: one pair i < j: dist = max(0.01, dist) is written to [i, j] and [j, i]
S1_AdjustPair ==
    /\ sim.pc = "adjust"
    /\ \E noise \in NoiseDraws :
          LET dist == adjusted_dist(sim, sim.i, sim.j, noise)
              last_j == sim.j = N_INDIVIDUALS - 1
              last_i == sim.i + 1 = N_INDIVIDUALS - 1
          IN sim' = [sim EXCEPT
                       !.matrix = [sim.matrix EXCEPT ![sim.i, sim.j] = dist, ![sim.j, sim.i] = dist],
                       !.pc = IF last_j /\ last_i THEN "done" ELSE "adjust",
                       !.i = IF last_j THEN @ + 1 ELSE @,
                       !.j = IF last_j THEN sim.i + 2 ELSE @ + 1]
    /\ UnchangedBySimulation

NextSimulate == S1_FamilyIteration \/ S1_DrawMatrix \/ S1_AdjustPair

SpecSimulate == InitSimulate /\ [][NextSimulate]_vars

----------------------------------------------------------------------------
\* C24: a step (extraction, structure building, clustering) that finds its
\* input absent or undecodable stops, and neither that step nor anything the
\* stopped script does afterwards creates, truncates or modifies a file.
C24_MissingInputLeavesOutputs ==
    [][/\ (pc2 = "load" /\ tables_file # "ok" /\ pc2' # pc2) =>
              (pc2' = "exited" /\ files' = files)
       /\ (pc3 = "idle" /\ hyperedges_file.state # "json" /\ pc3' # pc3) =>
              (pc3' = "exited" /\ files' = files)
       /\ (pc4 = "idle" /\ structure_file.state # "json" /\ pc4' # pc4) =>
              (pc4' = "exited" /\ files' = files)
       /\ pc2 = "exited" => (pc2' = "exited" /\ hyperedges_file' = hyperedges_file)
       /\ pc3 = "exited" => (pc3' = "exited" /\ structure_file' = structure_file)
       /\ pc4 = "exited" => (pc4' = "exited" /\ assignments_file' = assignments_file)]_vars

\* The extraction stopped on unreadable tables, and the hyperedge file an
\* earlier run left was still there for the structure-building step to read.
C24_Witness ==
    /\ pc2 = "exited"
    /\ hyperedges_file.state = "json"
    /\ hyperedges_file.data # <<>>
    /\ pc3 = "done"
    /\ H3.exists

C29_HandoffOrdering ==
    [][/\ structure_file' # structure_file =>
              /\ pc3 = "loaded" /\ pc3' = "done"
              /\ hyperedges_file.state = "json"
              /\ \E i \in DOMAIN ctor3 : ctor3[i] # {}
       /\ assignments_file' # assignments_file =>
              /\ pc4 = "loaded" /\ pc4' = "done"
              /\ structure_file.state = "json"
              /\ \E i \in DOMAIN ctor4 : ctor4[i] # {}
              /\ partition' # <<>>
       /\ (pc3 = "loaded" /\ ctor3 = <<>>) => structure_file' = structure_file
       /\ (pc4 = "loaded" /\ partition' = <<>>) => assignments_file' = assignments_file]_vars

\* Both hand-offs happened: a structure was written from the hyperedge file
\* and an assignments table of two rows from the structure.
C29_Witness ==
    /\ hyperedges_file.state = "json"
    /\ pc3 = "done" /\ structure_file.state = "json"
    /\ pc4 = "done" /\ assignments_file.state = "csv"
    /\ Len(assignments_file.data) = 2
    /\ Len(partition) = 2

\* C25: when every view contributes zero hyperedges the consolidated list is
\* empty, the hyperedge file is saved as an empty JSON list, and the
\* structure-building step reads it without stopping: it has no hyperedge,
\* skips nothing, builds no hypergraph and writes no structure.
C25_NothingToConsolidate ==
    (Consolidated /\ all_hyperedges_from_loaded = <<>>) =>
        /\ final_hyperedge_list_loaded = <<>>
        /\ pc2 = "done" => hyperedges_file = JsonFile(<<>>)
        /\ pc3 # "exited"
        /\ pc3 \in {"loaded", "done"} => (ctor3 = <<>> /\ warned3 = {})
        /\ pc3 = "done" => (~H3.exists /\ structure_file = AbsentStructure)

\* All five views ran and gave nothing, the empty list was saved and the
\* structure-building step ran to its end on it.
C25_Witness ==
    /\ pc2 = "done"
    /\ generated_hyperedge_counts = [i \in DOMAIN VIEWS |-> 0]
    /\ hyperedges_file = JsonFile(<<>>)
    /\ pc3 = "done"

\* The rows of the assignments table whose id is in the individuals table.
JoinedRows == {r \in Range(assignments_file.data) : r[1] \in individuals_df.ids}

\* The evaluation got past loading and the join has fewer rows than the
\* individuals table.
FewerJoined ==
    /\ pc5 \in {"done", "exited"}
    /\ assignments_file.state = "csv"
    /\ "individual_id" \in individuals_df.cols
    /\ Cardinality(JoinedRows) < Cardinality(individuals_df.ids)

\* C23 as stated: whenever the join has fewer rows than the individuals table
\* the step warns and computes its metrics on exactly the joined rows.
C23_AlwaysEvaluates ==
    FewerJoined =>
        /\ warned5
        /\ pc5 = "done"
        /\ Range(evaluated) = JoinedRows /\ Len(evaluated) = Cardinality(JoinedRows)

\* C23: when the join has fewer rows than the individuals table the step
\* warns; with at least one joined row it then computes its metrics on exactly
\* the joined rows, with none it stops before any metric is computed.
C23_MergeMismatch ==
    FewerJoined =>
        /\ warned5
        /\ IF JoinedRows = {}
           THEN pc5 = "exited" /\ evaluated = <<>>
           ELSE /\ pc5 = "done"
                /\ Range(evaluated) = JoinedRows /\ Len(evaluated) = Cardinality(JoinedRows)

\* Three individuals, three assigned ids of which one is not an individual:
\* the metrics were computed on the two joined rows.
C23_Witness ==
    /\ pc5 = "done" /\ warned5
    /\ Cardinality(individuals_df.ids) = 3
    /\ Len(assignments_file.data) = 3
    /\ Len(evaluated) = 2

C28_SimulatedMatrix ==
    sim.pc = "done" =>
        /\ DOMAIN sim.matrix = individual_ids \X individual_ids
        /\ \A a, b \in individual_ids : sim.matrix[a, b] = sim.matrix[b, a]
        /\ \A a \in individual_ids : sim.matrix[a, a] = 0
        /\ \A a, b \in individual_ids : a # b => sim.matrix[a, b] >= 10

\* A finished matrix in which one pair was raised to 0.01, one pair kept its
\* draw and one pair got the hybrid distance.
C28_Witness ==
    /\ sim.pc = "done"
    /\ \E a, b \in individual_ids : a # b /\ sim.matrix[a, b] = 10
    /\ \E a, b \in individual_ids : sim.matrix[a, b] \in BaseDraws
    /\ \E a, b \in individual_ids :
          /\ sim.true_group[a] = "Hybrid_G1G2" /\ sim.true_group[b] = "G1"
          /\ sim.matrix[a, b] < 400

\* C30: after the family loop every individual has family_id -1 or one family
\* id, the family ids in use are 0..F-1 with F <= N_FAMILIES, and every family
\* has between FAMILY_SIZE_MIN and FAMILY_SIZE_MAX members, at least 2.
C30_FamilyAssignment ==
    sim.pc \in {"matrix", "adjust", "done"} =>
        LET used == {sim.family_ids[a] : a \in individual_ids} \ {-1}
            F == Cardinality(used)
        IN /\ DOMAIN sim.family_ids = individual_ids
           /\ used = 0..(F - 1)
           /\ F <= N_FAMILIES
           /\ \A f \in used :
                 LET size == Cardinality({a \in individual_ids : sim.family_ids[a] = f})
                 IN size >= FAMILY_SIZE_MIN /\ size <= FAMILY_SIZE_MAX /\ size >= 2

\* The loop ended with two families.
C30_Witness ==
    /\ sim.pc = "matrix"
    /\ sim.current_family_id = 2
    /\ \E a, b \in individual_ids : sim.family_ids[a] = 0 /\ sim.family_ids[b] = 1

====
